---- MODULE Spec2Model ----
(***************************************************************************)
(* Shape-level model of model/unet.py: the two U-Net graph builders.       *)
(*                                                                         *)
(* A tensor is the record [id, h, w, c]: the index of the layer that       *)
(* produced it (0 = the Input layer), height, width and channel count.     *)
(* A graph under construction is the sequence `layers` of layer records in *)
(* creation order.  Every Keras layer call is an operator on a builder     *)
(* state [t, layers, err]: it appends its layer record and yields the      *)
(* output tensor, or sets err the way the framework raises, after which    *)
(* the rest of the construction is skipped (the exception propagates).     *)
(***************************************************************************)
EXTENDS Integers, Sequences, FiniteSets, TLC

VARIABLES
    args,      \* the keyword arguments of the build_model call
    keras,     \* framework behaviour that differs between Keras releases
    pc,        \* position of the construction
    err,       \* the framework error that ended the construction, or NoErr
    layers,    \* the layers created so far, in creation order
    m,         \* the tensor the construction has reached (level_block's m)
    dim,       \* BaseUNet.level_block: the dim argument of the current call
    depth,     \* BaseUNet.level_block: the depth argument of the current call
    stack,     \* BaseUNet.level_block: frames of the suspended recursive calls
    encoder,   \* UNetResNet101: the backbone: block counts and layer names
    lookups,   \* UNetResNet101: names passed to encoder.get_layer, in order
    blocks,    \* UNetResNet101: encoder_block calls made, in order
    skips,     \* UNetResNet101: the stage outputs conv_2 .. conv_5
    decs       \* UNetResNet101: center, dec_5, dec_4, ... built so far

vars == <<args, keras, pc, err, layers, m, dim, depth, stack,
          encoder, lookups, blocks, skips, decs>>

-----------------------------------------------------------------------------
(* Bounds of the model *)

MaxDepth == 3
MaxSize == 4

(* Defaults of BaseUNet.build_model *)
DefaultSize == 256
DefaultDepth == 4
DefaultFilters == 64
DefaultInChannels == 3
DefaultOutChannels == 1

-----------------------------------------------------------------------------
(* Arithmetic *)

RECURSIVE Pow(_, _)
Pow(b, e) == IF e <= 0 THEN 1 ELSE b * Pow(b, e - 1)

CeilDiv(a, b) == (a + b - 1) \div b

\* Python int() of the quotient n/d (d > 0): truncation towards zero.
Trunc(n, d) == IF n >= 0 THEN n \div d ELSE -((-n) \div d)

-----------------------------------------------------------------------------
(* Keras layers, as far as shapes go *)

NoErr == "none"

Tensor(id, h, w, c) == [id |-> id, h |-> h, w |-> w, c |-> c]

Builder(t, ls) == [t |-> t, layers |-> ls, err |-> NoErr]

Fail(g, e) == [g EXCEPT !.err = e]

\* A layer of kind op, created at recursion level lvl inside part blk, applied
\* to the tensors with ids in1 (and in2), producing a tensor of shape (h, w, c).
Emit(g, op, lvl, blk, in1, in2, h, w, c, filters, k) ==
    LET id == Len(g.layers) + 1 IN
    [g EXCEPT !.t = Tensor(id, h, w, c),
              !.layers = Append(@,
                  [op |-> op, lvl |-> lvl, blk |-> blk, in |-> in1, in2 |-> in2,
                   h |-> h, w |-> w, c |-> c, filters |-> filters, k |-> k])]

\* Conv2D(filters, k, strides=s, padding='same'): ceil(size / s).
Conv2D(g, filters, k, s, lvl, blk) ==
    IF g.err # NoErr THEN g
    ELSE IF filters < 0 \/ (filters = 0 /\ ~keras.zeroFiltersOk)
         THEN Fail(g, "Conv2D: filters")
    ELSE Emit(g, "Conv2D", lvl, blk, g.t.id, 0,
              CeilDiv(g.t.h, s), CeilDiv(g.t.w, s), filters, filters, k)

\* Conv2DTranspose(filters, k, strides=2, padding='same'): size * 2.
Conv2DTranspose(g, filters, k, lvl, blk) ==
    IF g.err # NoErr THEN g
    ELSE IF filters < 0 \/ (filters = 0 /\ ~keras.zeroFiltersOk)
         THEN Fail(g, "Conv2DTranspose: filters")
    ELSE Emit(g, "Conv2DTranspose", lvl, blk, g.t.id, 0,
              g.t.h * 2, g.t.w * 2, filters, filters, k)

\* MaxPooling2D(): pool 2x2, stride 2, padding 'valid': floor(size / 2); the
\* framework rejects an input smaller than the pool window.
MaxPooling2D(g, lvl, blk) ==
    IF g.err # NoErr THEN g
    ELSE IF g.t.h < 2 \/ g.t.w < 2 THEN Fail(g, "MaxPooling2D: shape")
    ELSE Emit(g, "MaxPooling2D", lvl, blk, g.t.id, 0,
              g.t.h \div 2, g.t.w \div 2, g.t.c, 0, 2)

\* UpSampling2D(): size (2, 2).
UpSampling2D(g, lvl, blk) ==
    IF g.err # NoErr THEN g
    ELSE Emit(g, "UpSampling2D", lvl, blk, g.t.id, 0,
              g.t.h * 2, g.t.w * 2, g.t.c, 0, 2)

BatchNormalization(g, lvl, blk) ==
    IF g.err # NoErr THEN g
    ELSE Emit(g, "BatchNormalization", lvl, blk, g.t.id, 0,
              g.t.h, g.t.w, g.t.c, 0, 0)

Dropout(g, lvl, blk) ==
    IF g.err # NoErr THEN g
    ELSE Emit(g, "Dropout", lvl, blk, g.t.id, 0, g.t.h, g.t.w, g.t.c, 0, 0)

\* Concatenate()([a, g.t]) on the channel axis: every other axis must agree.
Concatenate(a, g, lvl, blk) ==
    IF g.err # NoErr THEN g
    ELSE IF a.h # g.t.h \/ a.w # g.t.w THEN Fail(g, "Concatenate: shape")
    ELSE Emit(g, "Concatenate", lvl, blk, a.id, g.t.id,
              a.h, a.w, a.c + g.t.c, 0, 0)

-----------------------------------------------------------------------------
(* BaseUNet *)

\* Mutant of ResidualJoin: the block input is never joined to the output.
ResidualDropped(min, n, res, lvl, blk) == n

\* conv_block's return value: the input joined to the convolution path.
ResidualJoin(min, n, res, lvl, blk) ==
    IF res THEN Concatenate(min, n, lvl, blk) ELSE n

conv_block(g, d, bn, res, do, lvl, blk) ==
    LET n1 == Conv2D(g, d, 3, 1, lvl, blk)
        n2 == IF bn THEN BatchNormalization(n1, lvl, blk) ELSE n1
        n3 == IF do # 0 THEN Dropout(n2, lvl, blk) ELSE n2
        n4 == Conv2D(n3, d, 3, 1, lvl, blk)
        n5 == IF bn THEN BatchNormalization(n4, lvl, blk) ELSE n4
    IN  ResidualJoin(g.t, n5, res, lvl, blk)

\* Mutant of LevelDropout: the dropout rate is passed on at every level.
LevelDropoutPassed(do) == do

\* The do argument of the conv_block calls of a recursive level (the default).
LevelDropout(do) == 0

\* The do argument of the conv_block call of the terminal level.
TerminalDropout(do) == do

\* Mutant of Downsample: the convolution loses its strides=2.
DownsampleUnstrided(g, d, mp, lvl) ==
    IF mp THEN MaxPooling2D(g, lvl, "down")
    ELSE Conv2D(g, d, 3, 1, lvl, "down")

\* level_block line 45: the downsampling step.
Downsample(g, d, mp, lvl) ==
    IF mp THEN MaxPooling2D(g, lvl, "down")
    ELSE Conv2D(g, d, 3, 2, lvl, "down")

\* Mutant of Upsample: the UpSampling2D layer is left out.
UpsampleConvOnly(g, d, up, lvl) ==
    IF up THEN Conv2D(g, d, 2, 1, lvl, "up")
    ELSE Conv2DTranspose(g, d, 3, lvl, "up")

\* level_block lines 47-51: the upsampling step.
Upsample(g, d, up, lvl) ==
    IF up THEN Conv2D(UpSampling2D(g, lvl, "up"), d, 2, 1, lvl, "up")
    ELSE Conv2DTranspose(g, d, 3, lvl, "up")

\* Mutant of NextDim: round(inc * dim) in place of int(inc * dim).
NextDimRounded(inc, d) == (2 * inc.n * d + inc.d) \div (2 * inc.d)

\* level_block line 46: int(inc * dim), inc the rational inc.n / inc.d.
NextDim(inc, d) == Trunc(inc.n * d, inc.d)

\* Mutant of NextDepth: the nested call skips a level.
NextDepthSkipping(d) == d - 2

\* level_block line 46: the depth of the nested call.
NextDepth(d) == d - 1

\* level_block line 43: the test that selects the recursive case.
Recursive(d) == d > 0

\* level_block line 52: the skip concatenation.
SkipJoin(n, g, lvl) == Concatenate(n, g, lvl, "skip")

Sizes == (1 .. MaxSize) \cup {Pow(2, MaxDepth)}
Depths == (-2) .. MaxDepth
Filters == {1, 3}
IncRates == {[n |-> 1, d |-> 2], [n |-> 3, d |-> 2], [n |-> 2, d |-> 1]}
DropoutRates == {0, 5}     \* in tenths

BoundedArgs ==
    [builder : {"BaseUNet"},
     h : Sizes, w : Sizes,
     in_channels : {DefaultInChannels}, out_channels : {1, 2},
     num_filters : Filters, depth : Depths, dropout : DropoutRates,
     batch_norm : BOOLEAN, maxpool : BOOLEAN, is_deconv : BOOLEAN,
     residual : BOOLEAN, inc_rate : IncRates]

\* BaseUNet().build_model((256, 256), depth=4, num_filters=64)
DefaultArgs ==
    [builder : {"BaseUNet"},
     h : {DefaultSize}, w : {DefaultSize},
     in_channels : {DefaultInChannels}, out_channels : {DefaultOutChannels},
     num_filters : {DefaultFilters}, depth : {DefaultDepth}, dropout : {5},
     batch_norm : BOOLEAN, maxpool : BOOLEAN, is_deconv : BOOLEAN,
     residual : BOOLEAN, inc_rate : {[n |-> 2, d |-> 1]}]

NoTensor == Tensor(0, 0, 0, 0)

Init ==
    /\ args \in BoundedArgs \cup DefaultArgs
    /\ keras \in [zeroFiltersOk : BOOLEAN]
    /\ (keras.zeroFiltersOk = FALSE => args.inc_rate.n < args.inc_rate.d)
    /\ pc = "build_model"
    /\ err = NoErr
    /\ layers = << >>
    /\ m = NoTensor
    /\ dim = 0
    /\ depth = 0
    /\ stack = << >>
    /\ encoder = [counts |-> << >>, names |-> {}]
    /\ lookups = << >>
    /\ blocks = << >>
    /\ skips = << >>
    /\ decs = << >>

UnchangedResNet == UNCHANGED <<encoder, lookups, blocks, skips, decs>>

\* The construction ends with the exception e.
Raise(g) ==
    /\ pc' = "error"
    /\ err' = g.err
    /\ layers' = g.layers

\* build_model lines 27-30: the Input tensor and the call of level_block.
BuildModel ==
    /\ pc = "build_model"
    /\ args.builder = "BaseUNet"
    /\ m' = Tensor(0, args.h, args.w, args.in_channels)
    /\ dim' = args.num_filters
    /\ depth' = args.depth
    /\ pc' = "level_block"
    /\ UNCHANGED <<args, keras, err, layers, stack>>
    /\ UnchangedResNet

\* level_block lines 43-46: the first conv block, the downsampling and the
\* nested call.
LevelDescend ==
    /\ pc = "level_block"
    /\ Recursive(depth)
    /\ LET n == conv_block(Builder(m, layers), dim, args.batch_norm,
                           args.residual, LevelDropout(args.dropout), depth, "pre")
           g == Downsample(n, dim, args.maxpool, depth)
       IN  IF g.err = NoErr
           THEN /\ layers' = g.layers
                /\ stack' = Append(stack, [n |-> n.t, dim |-> dim, depth |-> depth])
                /\ m' = g.t
                /\ dim' = NextDim(args.inc_rate, dim)
                /\ depth' = NextDepth(depth)
                /\ UNCHANGED <<pc, err>>
           ELSE /\ Raise(g)
                /\ UNCHANGED <<m, dim, depth, stack>>
    /\ UNCHANGED <<args, keras>>
    /\ UnchangedResNet

\* level_block lines 54-56: the terminal conv block, and the return.
LevelTerminal ==
    /\ pc = "level_block"
    /\ ~Recursive(depth)
    /\ LET g == conv_block(Builder(m, layers), dim, args.batch_norm,
                           args.residual, TerminalDropout(args.dropout), depth, "term")
       IN  IF g.err = NoErr
           THEN /\ layers' = g.layers
                /\ m' = g.t
                /\ pc' = "return"
                /\ UNCHANGED err
           ELSE /\ Raise(g)
                /\ UNCHANGED m
    /\ UNCHANGED <<args, keras, dim, depth, stack>>
    /\ UnchangedResNet

\* level_block lines 47-53 and 56: back in the calling frame, the upsampling,
\* the skip concatenation, the second conv block, and the return.
LevelAscend ==
    /\ pc = "return"
    /\ stack # << >>
    /\ LET f == stack[Len(stack)]
           u == Upsample(Builder(m, layers), f.dim, args.is_deconv, f.depth)
           n == SkipJoin(f.n, u, f.depth)
           g == conv_block(n, f.dim, args.batch_norm, args.residual,
                           LevelDropout(args.dropout), f.depth, "post")
       IN  IF g.err = NoErr
           THEN /\ layers' = g.layers
                /\ m' = g.t
                /\ dim' = f.dim
                /\ depth' = f.depth
                /\ stack' = SubSeq(stack, 1, Len(stack) - 1)
                /\ UNCHANGED <<pc, err>>
           ELSE /\ Raise(g)
                /\ UNCHANGED <<m, dim, depth, stack>>
    /\ UNCHANGED <<args, keras>>
    /\ UnchangedResNet

\* build_model lines 31-32: the 1x1 sigmoid convolution and the Model.
BuildOutput ==
    /\ pc = "return"
    /\ stack = << >>
    /\ args.builder = "BaseUNet"
    /\ LET g == Conv2D(Builder(m, layers), args.out_channels, 1, 1, depth, "out")
       IN  IF g.err = NoErr
           THEN /\ layers' = g.layers
                /\ m' = g.t
                /\ pc' = "done"
                /\ UNCHANGED err
           ELSE /\ Raise(g)
                /\ UNCHANGED m
    /\ UNCHANGED <<args, keras, dim, depth, stack>>
    /\ UnchangedResNet

Next ==
    \/ BuildModel
    \/ LevelDescend
    \/ LevelTerminal
    \/ LevelAscend
    \/ BuildOutput

Spec == Init /\ [][Next]_vars

-----------------------------------------------------------------------------
(* The ResNet101 backbone (module resnet101): the layer names it exposes and *)
(* what its layers do to a shape                                             *)

Letters == <<"a", "b", "c", "d", "e">>

\* The block labels of a stage with k blocks: a, b, c, ... in stages 2 and 5,
\* a, b1, b2, ... in stages 3 and 4.
StageLabels(stage, k) ==
    IF stage \in {2, 5}
    THEN {Letters[i] : i \in 1 .. k}
    ELSE {"a"} \cup {"b" \o ToString(i) : i \in 1 .. (k - 1)}

MainSuffixes == {"2a", "2b", "2c"}

BlockNames(stage, block) ==
    LET sb == ToString(stage) \o block IN
    {"res" \o sb \o "_branch" \o x : x \in MainSuffixes}
    \cup {"bn" \o sb \o "_branch" \o x : x \in MainSuffixes}
    \cup {"scale" \o sb \o "_branch" \o x : x \in MainSuffixes}
    \cup {"res" \o sb \o "_branch2a_relu", "res" \o sb \o "_branch2b_zeropadding",
          "res" \o sb \o "_branch2b_relu", "res" \o sb, "res" \o sb \o "_relu"}
    \cup (IF block = "a"
          THEN {"res" \o sb \o "_branch1", "bn" \o sb \o "_branch1",
                "scale" \o sb \o "_branch1"}
          ELSE {})

StemNames == {"conv1_zeropadding", "conv1", "bn_conv1", "scale_conv1", "conv1_relu"}

\* The layer names of a backbone with counts[s] residual blocks in stage s.
EncoderNames(counts) ==
    StemNames \cup
    UNION {UNION {BlockNames(st, b) : b \in StageLabels(st, counts[st])} : st \in 2 .. 5}

\* What a backbone layer does to a shape.  role names the layer's place:
\* the stem's padding and 7x7 stride-2 convolution, a bottleneck's 1x1 reduce
\* (2a), padding, 3x3 (2b), 1x1 expand (2c) and shortcut convolution (1); the
\* first block of stages 3, 4 and 5 strides by 2 in 2a and 1.
EncoderCall(g, role, stage, first, blk) ==
    LET t == g.t
        s == IF first /\ stage \in 3 .. 5 THEN 2 ELSE 1
        narrow == 64 * Pow(2, stage - 2)
        wide == 256 * Pow(2, stage - 2)
        Out(op, h, w, c, f, k) == Emit(g, op, stage, blk, t.id, 0, h, w, c, f, k)
    IN  CASE role = "conv1_zeropadding" ->
               Out("ZeroPadding2D", t.h + 6, t.w + 6, t.c, 0, 0)
          [] role = "conv1" ->
               IF t.c # 3 THEN Fail(g, "conv1: input channels")
               ELSE IF t.h < 7 \/ t.w < 7 THEN Fail(g, "conv1: shape")
               ELSE Out("Conv2D", (t.h - 7) \div 2 + 1, (t.w - 7) \div 2 + 1, 64, 64, 7)
          [] role \in {"2a", "1"} ->
               Out("Conv2D", (t.h - 1) \div s + 1, (t.w - 1) \div s + 1,
                   IF role = "1" THEN wide ELSE narrow,
                   IF role = "1" THEN wide ELSE narrow, 1)
          [] role = "2b_zeropadding" ->
               Out("ZeroPadding2D", t.h + 2, t.w + 2, t.c, 0, 0)
          [] role = "2b" ->
               IF t.h < 3 \/ t.w < 3 THEN Fail(g, "conv: shape")
               ELSE Out("Conv2D", t.h - 2, t.w - 2, narrow, narrow, 3)
          [] role = "2c" -> Out("Conv2D", t.h, t.w, wide, wide, 1)
          [] role = "bn" -> Out("BatchNormalization", t.h, t.w, t.c, 0, 0)
          [] role = "scale" -> Out("Scale", t.h, t.w, t.c, 0, 0)
          [] OTHER -> Out("Activation", t.h, t.w, t.c, 0, 0)

-----------------------------------------------------------------------------
(* UNetResNet101 *)

RBuilder(t, ls, lk) == [t |-> t, layers |-> ls, err |-> NoErr, lookups |-> lk]

\* self.encoder.get_layer(name=...)(x): the lookup raises on a missing name.
GetLayer(g, name, role, stage, first, blk) ==
    IF g.err # NoErr THEN g
    ELSE LET g1 == [g EXCEPT !.lookups = Append(@, name)]
         IN  IF name \in encoder.names
             THEN EncoderCall(g1, role, stage, first, blk)
             ELSE Fail(g1, "get_layer: missing name")

\* add([x, branch]): the two shapes must be the same.
Add(a, g, lvl, blk) ==
    IF g.err # NoErr THEN g
    ELSE IF <<a.h, a.w, a.c>> # <<g.t.h, g.t.w, g.t.c>> THEN Fail(g, "add: shape")
    ELSE Emit(g, "Add", lvl, blk, a.id, g.t.id, a.h, a.w, a.c, 0, 0)

\* encoder_block, lines 150-155: the shortcut path.
ShortcutPath(g, x, stage, block, shortcut) ==
    LET sb == ToString(stage) \o block
        g0 == [x EXCEPT !.t = g.t]
        b1 == GetLayer(g0, "res" \o sb \o "_branch" \o "1", "1", stage, shortcut, "enc")
        b2 == GetLayer(b1, "bn" \o sb \o "_branch" \o "1", "bn", stage, shortcut, "enc")
        b3 == GetLayer(b2, "scale" \o sb \o "_branch" \o "1", "scale", stage, shortcut, "enc")
    IN  IF shortcut THEN b3 ELSE g0

encoder_block(g, stage, block, shortcut) ==
    LET sb == ToString(stage) \o block
        conv_name_base == "res" \o sb \o "_branch"
        bn_name_base == "bn" \o sb \o "_branch"
        scale_name_base == "scale" \o sb \o "_branch"
        L(x, name, role) == GetLayer(x, name, role, stage, shortcut, "enc")
        x1 == L(g, conv_name_base \o "2a", "2a")
        x2 == L(x1, bn_name_base \o "2a", "bn")
        x3 == L(x2, scale_name_base \o "2a", "scale")
        x4 == L(x3, conv_name_base \o "2a_relu", "relu")
        x5 == L(x4, conv_name_base \o "2b_zeropadding", "2b_zeropadding")
        x6 == L(x5, conv_name_base \o "2b", "2b")
        x7 == L(x6, bn_name_base \o "2b", "bn")
        x8 == L(x7, scale_name_base \o "2b", "scale")
        x9 == L(x8, conv_name_base \o "2b_relu", "relu")
        x10 == L(x9, conv_name_base \o "2c", "2c")
        x11 == L(x10, bn_name_base \o "2c", "bn")
        x12 == L(x11, scale_name_base \o "2c", "scale")
        branch == ShortcutPath(g, x12, stage, block, shortcut)
        sum == Add(x12.t, branch, stage, "enc")
    IN  L(sum, "res" \o sb \o "_relu", "relu")

decoder_block(g, middle_channels, out_channels, is_deconv, lvl, blk) ==
    IF is_deconv
    THEN Conv2DTranspose(Conv2D(g, middle_channels, 3, 1, lvl, blk),
                         out_channels, 4, lvl, blk)
    ELSE Conv2D(Conv2D(UpSampling2D(g, lvl, blk), middle_channels, 3, 1, lvl, blk),
                out_channels, 3, 1, lvl, blk)

\* range(lo, hi), as a sequence.
PyRange(lo, hi) == [i \in 1 .. (hi - lo) |-> lo + i - 1]

Block(stage, block, shortcut) ==
    [stage |-> stage, block |-> block, shortcut |-> shortcut]

\* build_model lines 86-88.
Stage2Blocks == <<Block(2, "a", TRUE), Block(2, "b", FALSE), Block(2, "c", FALSE)>>

\* Mutant of Stage3Blocks: range(1, 4), the four blocks of the published stage 3.
Stage3BlocksFour ==
    <<Block(3, "a", TRUE)>> \o
    [i \in 1 .. Len(PyRange(1, 4)) |->
        Block(3, "b" \o ToString(PyRange(1, 4)[i]), FALSE)]

\* build_model lines 90-92.
Stage3Blocks ==
    <<Block(3, "a", TRUE)>> \o
    [i \in 1 .. Len(PyRange(1, 3)) |->
        Block(3, "b" \o ToString(PyRange(1, 3)[i]), FALSE)]

\* build_model lines 94-96.
Stage4Blocks ==
    <<Block(4, "a", TRUE)>> \o
    [i \in 1 .. Len(PyRange(1, 23)) |->
        Block(4, "b" \o ToString(PyRange(1, 23)[i]), FALSE)]

\* build_model lines 98-100.
Stage5Blocks == <<Block(5, "a", TRUE), Block(5, "b", FALSE), Block(5, "c", FALSE)>>

\* The encoder_block calls of build_model, in order.
BlockTable == Stage2Blocks \o Stage3Blocks \o Stage4Blocks \o Stage5Blocks

\* Mutant of DecoderSkips: dec_4 and dec_3 take each other's skip tensor.
DecoderSkipsSwapped == <<5, 3, 4, 2, 0>>

\* build_model lines 105-113: the stage whose output each decoder block
\* concatenates to its input (0: none), dec_5 first.
DecoderSkips == <<5, 4, 3, 2, 0>>

\* build_model lines 105-113: middle_channels and out_channels, dec_5 first.
DecoderChannels(nf) ==
    <<[middle |-> nf * 8 * 2, out |-> nf * 8],
      [middle |-> nf * 8 * 2, out |-> nf * 8],
      [middle |-> nf * 4 * 2, out |-> nf * 2],
      [middle |-> nf * 2 * 2, out |-> nf * 2 * 2],
      [middle |-> nf * 2 * 2, out |-> nf]>>

MaxMult == 3
ResNetSizes == {32 * i : i \in 1 .. MaxMult} \cup {DefaultSize}

\* The block counts per stage that the builder's lookups need.
QueriedCounts == [st \in 2 .. 5 |-> IF st = 4 THEN 23 ELSE 3]

\* Backbones: the queried counts, and one block fewer or more in one stage
\* (the 101-layer topology itself has 4 blocks in stage 3).
BackboneCounts ==
    {[QueriedCounts EXCEPT ![st] = @ + d] : st \in 2 .. 5, d \in {-1, 0, 1}}

ResNetArgs ==
    [builder : {"UNetResNet101"},
     h : ResNetSizes, w : ResNetSizes,
     in_channels : {1, DefaultInChannels}, out_channels : {1, 2},
     num_filters : {32}, dropout : {2},
     is_deconv : BOOLEAN, resnet_pretrained : BOOLEAN]

InitR ==
    /\ args \in ResNetArgs
    /\ keras \in [zeroFiltersOk : {TRUE}, weightsFileOk : BOOLEAN]
    /\ (~args.resnet_pretrained => keras.weightsFileOk)
    /\ encoder \in {[counts |-> c, names |-> EncoderNames(c)] : c \in BackboneCounts}
    /\ pc = "build_model"
    /\ err = NoErr
    /\ layers = << >>
    /\ m = NoTensor
    /\ dim = 0
    /\ depth = 0
    /\ stack = << >>
    /\ lookups = << >>
    /\ blocks = << >>
    /\ skips = [st \in 2 .. 5 |-> NoTensor]
    /\ decs = << >>

UnchangedBase == UNCHANGED <<dim, depth, stack>>

RaiseR(g) ==
    /\ pc' = "error"
    /\ err' = g.err
    /\ layers' = g.layers
    /\ lookups' = g.lookups

\* build_model lines 68-76: the backbone and its weights.
LoadEncoder ==
    /\ pc = "build_model"
    /\ args.builder = "UNetResNet101"
    /\ IF args.resnet_pretrained /\ ~keras.weightsFileOk
       THEN pc' = "error" /\ err' = "load_weights"
       ELSE pc' = "stem" /\ UNCHANGED err
    /\ UNCHANGED <<args, keras, layers, m, encoder, lookups, blocks, skips, decs>>
    /\ UnchangedBase

\* build_model lines 78-84: the Input, the five stage-1 layers and pool1.
Stem ==
    /\ pc = "stem"
    /\ LET g0 == RBuilder(Tensor(0, args.h, args.w, args.in_channels), layers, lookups)
           c1 == GetLayer(g0, "conv1_zeropadding", "conv1_zeropadding", 1, FALSE, "stem")
           c2 == GetLayer(c1, "conv1", "conv1", 1, FALSE, "stem")
           c3 == GetLayer(c2, "bn_conv1", "bn", 1, FALSE, "stem")
           c4 == GetLayer(c3, "scale_conv1", "scale", 1, FALSE, "stem")
           c5 == GetLayer(c4, "conv1_relu", "relu", 1, FALSE, "stem")
           g == MaxPooling2D(c5, 1, "pool1")
       IN  IF g.err = NoErr
           THEN /\ layers' = g.layers
                /\ lookups' = g.lookups
                /\ m' = g.t
                /\ pc' = "encoder"
                /\ UNCHANGED err
           ELSE /\ RaiseR(g)
                /\ UNCHANGED m
    /\ UNCHANGED <<args, keras, encoder, blocks, skips, decs>>
    /\ UnchangedBase

\* build_model lines 86-100: the next encoder_block call.
EncoderBlock ==
    /\ pc = "encoder"
    /\ LET i == Len(blocks) + 1
           b == BlockTable[i]
           g == encoder_block(RBuilder(m, layers, lookups), b.stage, b.block, b.shortcut)
       IN  IF g.err = NoErr
           THEN /\ layers' = g.layers
                /\ lookups' = g.lookups
                /\ m' = g.t
                /\ blocks' = Append(blocks,
                       [stage |-> b.stage, block |-> b.block, shortcut |-> b.shortcut,
                        in |-> m.id, out |-> g.t.id,
                        first |-> Len(lookups) + 1, last |-> Len(g.lookups)])
                /\ skips' = [skips EXCEPT ![b.stage] = g.t]
                /\ pc' = IF i = Len(BlockTable) THEN "center" ELSE "encoder"
                /\ UNCHANGED err
           ELSE /\ RaiseR(g)
                /\ UNCHANGED <<m, blocks, skips>>
    /\ UNCHANGED <<args, keras, encoder, decs>>
    /\ UnchangedBase

\* build_model lines 102-103: the pooling of conv_5 and the center block.
Center ==
    /\ pc = "center"
    /\ LET nf == args.num_filters
           pool == MaxPooling2D(RBuilder(skips[5], layers, lookups), 6, "center")
           g == decoder_block(pool, nf * 8 * 2, nf * 8, args.is_deconv, 6, "center")
       IN  IF g.err = NoErr
           THEN /\ layers' = g.layers
                /\ m' = g.t
                /\ decs' = <<g.t>>
                /\ pc' = "decoder"
                /\ UNCHANGED <<err, lookups>>
           ELSE /\ RaiseR(g)
                /\ UNCHANGED <<m, decs>>
    /\ UNCHANGED <<args, keras, encoder, blocks, skips>>
    /\ UnchangedBase

\* build_model lines 105-113: the next of dec_5, dec_4, dec_3, dec_2, dec_1.
DecoderBlock ==
    /\ pc = "decoder"
    /\ LET i == Len(decs)
           prev == decs[Len(decs)]
           lvl == 6 - i
           ch == DecoderChannels(args.num_filters)[i]
           g0 == RBuilder(prev, layers, lookups)
           joined == IF DecoderSkips[i] = 0 THEN g0
                     ELSE Concatenate(prev, [g0 EXCEPT !.t = skips[DecoderSkips[i]]],
                                      lvl, "skip")
           g == decoder_block(joined, ch.middle, ch.out, args.is_deconv, lvl, "dec")
       IN  IF g.err = NoErr
           THEN /\ layers' = g.layers
                /\ m' = g.t
                /\ decs' = Append(decs, g.t)
                /\ pc' = IF i = Len(DecoderSkips) THEN "output" ELSE "decoder"
                /\ UNCHANGED <<err, lookups>>
           ELSE /\ RaiseR(g)
                /\ UNCHANGED <<m, decs>>
    /\ UNCHANGED <<args, keras, encoder, blocks, skips>>
    /\ UnchangedBase

\* build_model lines 114-118: dec_0, the dropout, the sigmoid convolution.
Output ==
    /\ pc = "output"
    /\ LET dec_0 == Conv2D(RBuilder(m, layers, lookups), args.num_filters, 3, 1, 0, "out")
           dropped == Dropout(dec_0, 0, "out")
           g == Conv2D(dropped, args.out_channels, 1, 1, 0, "out")
       IN  IF g.err = NoErr
           THEN /\ layers' = g.layers
                /\ m' = g.t
                /\ pc' = "done"
                /\ UNCHANGED <<err, lookups>>
           ELSE /\ RaiseR(g)
                /\ UNCHANGED m
    /\ UNCHANGED <<args, keras, encoder, blocks, skips, decs>>
    /\ UnchangedBase

NextR ==
    \/ LoadEncoder
    \/ Stem
    \/ EncoderBlock
    \/ Center
    \/ DecoderBlock
    \/ Output

SpecR == InitR /\ [][NextR]_vars


-----------------------------------------------------------------------------
(* Vocabulary of the properties *)

Finished == pc \in {"done", "error"}

IsBase == args.builder = "BaseUNet"

InputTensor == Tensor(0, args.h, args.w, args.in_channels)

\* The tensor with the given id: the Input, or a layer's output.
ShapeOf(id) == IF id = 0 THEN InputTensor
               ELSE Tensor(id, layers[id].h, layers[id].w, layers[id].c)

LayerIds == 1 .. Len(layers)

Count(op) == Cardinality({i \in LayerIds : layers[i].op = op})

CountBlk(blk) == Cardinality({i \in LayerIds : layers[i].blk = blk})

\* Height and width divide evenly through every level of the recursion.
Aligned ==
    /\ args.h % Pow(2, args.depth) = 0
    /\ args.w % Pow(2, args.depth) = 0

\* The filter count after k levels, truncating at every level.
RECURSIVE StepDim(_, _, _)
StepDim(nf, inc, k) ==
    IF k <= 0 THEN nf
    ELSE LET p == inc.n * StepDim(nf, inc, k - 1)
         IN  IF p >= 0 THEN p \div inc.d ELSE -((-p) \div inc.d)

\* The filter count after k levels, truncating once: trunc(nf * inc^k).
ClosedDim(nf, inc, k) == (nf * Pow(inc.n, k)) \div Pow(inc.d, k)

FiltersPositive ==
    \A k \in 0 .. args.depth : StepDim(args.num_filters, args.inc_rate, k) > 0

ConvBlockParts == {"pre", "post", "term"}

\* A conv block is a maximal run of layers of one level and one part.
BlockStart(i) ==
    /\ layers[i].blk \in ConvBlockParts
    /\ i > 1 => (layers[i - 1].blk # layers[i].blk \/ layers[i - 1].lvl # layers[i].lvl)

BlockEnd(i) ==
    /\ layers[i].blk \in ConvBlockParts
    /\ i < Len(layers) =>
         (layers[i + 1].blk # layers[i].blk \/ layers[i + 1].lvl # layers[i].lvl)

BlockStarts == {i \in LayerIds : BlockStart(i)}

\* The last layer of the block that starts at s.
EndOf(s) == CHOOSE e \in s .. Len(layers) :
              BlockEnd(e) /\ \A j \in s .. e - 1 : ~BlockEnd(j)

-----------------------------------------------------------------------------
\* C1 (as stated): every BaseUNet.build_model call with depth >= 0,
\* num_filters > 0, inc_rate > 0 and positive h, w completes, and the output's
\* height and width are h and w.
C1_AsStated ==
    (IsBase /\ args.depth >= 0) =>
        /\ pc # "error"
        /\ pc = "done" => (m.h = args.h /\ m.w = args.w)

\* C1 (amended): for depth >= 0, when h and w are multiples of 2^depth and the
\* filter count stays positive at every level, construction completes with
\* output height and width h and w; when h or w is not a multiple of 2^depth
\* construction ends in a framework error; and no completed construction has
\* an output whose height or width differs from the input's.
C1_Amended ==
    (IsBase /\ args.depth >= 0 /\ Finished) =>
        /\ (Aligned /\ FiltersPositive) => pc = "done"
        /\ ~Aligned => (pc = "error" /\ err # NoErr)
        /\ pc = "done" => (m.h = args.h /\ m.w = args.w)

C1_Witness ==
    /\ IsBase /\ pc = "done" /\ args.depth >= 2
    /\ m.h = args.h /\ m.w = args.w /\ args.h # args.w

\* C2: with h and w multiples of 2^depth, no downsampling or concatenation is
\* rejected for its shape, every downsampling halves and every upsampling
\* doubles height and width exactly, the two inputs of every skip
\* concatenation have equal height and width, and a returned model has output
\* shape (h, w, out_channels); the default call yields (256, 256, 1).
C2_ConcatAligned ==
    (IsBase /\ args.depth >= 0 /\ Aligned) =>
        /\ err \notin {"Concatenate: shape", "MaxPooling2D: shape"}
        /\ \A i \in LayerIds :
             /\ layers[i].blk = "down" =>
                  /\ 2 * layers[i].h = ShapeOf(layers[i].in).h
                  /\ 2 * layers[i].w = ShapeOf(layers[i].in).w
             /\ layers[i].op \in {"UpSampling2D", "Conv2DTranspose"} =>
                  /\ layers[i].h = 2 * ShapeOf(layers[i].in).h
                  /\ layers[i].w = 2 * ShapeOf(layers[i].in).w
             /\ layers[i].blk = "skip" =>
                  /\ ShapeOf(layers[i].in).h = ShapeOf(layers[i].in2).h
                  /\ ShapeOf(layers[i].in).w = ShapeOf(layers[i].in2).w
        /\ (pc = "return" /\ stack # << >>) =>
             /\ 2 * m.h = stack[Len(stack)].n.h
             /\ 2 * m.w = stack[Len(stack)].n.w
        /\ pc = "done" =>
             <<m.h, m.w, m.c>> = <<args.h, args.w, args.out_channels>>
        /\ (pc = "done" /\ args \in DefaultArgs) =>
             <<m.h, m.w, m.c>> = <<256, 256, 1>>

C2_Witness ==
    /\ IsBase /\ pc = "done" /\ args \in DefaultArgs
    /\ <<InputTensor.h, InputTensor.w, InputTensor.c>> = <<256, 256, 3>>
    /\ <<m.h, m.w, m.c>> = <<256, 256, 1>>
    /\ CountBlk("skip") = 4

\* C3: the convolutions of recursion level d use num_filters taken through
\* dim := trunc(inc_rate * dim) once per level descended, which is not
\* trunc(num_filters * inc_rate^(depth - d)): for num_filters = 3 and
\* inc_rate = 3/2 the third level down uses 9 filters, the closed form gives 10.
C3_StepwiseTruncation ==
    IsBase =>
        /\ \A i \in LayerIds :
             (layers[i].op \in {"Conv2D", "Conv2DTranspose"} /\ layers[i].blk # "out") =>
                layers[i].filters =
                    StepDim(args.num_filters, args.inc_rate, args.depth - layers[i].lvl)
        /\ pc = "level_block" =>
             dim = StepDim(args.num_filters, args.inc_rate, args.depth - depth)
        /\ (pc = "level_block" /\ args.num_filters = 3 /\ args.inc_rate = [n |-> 3, d |-> 2]
              /\ args.depth - depth = 3) =>
             (dim = 9 /\ ClosedDim(3, args.inc_rate, 3) = 10)

C3_Witness ==
    /\ IsBase /\ args.num_filters = 3 /\ args.inc_rate = [n |-> 3, d |-> 2]
    /\ ClosedDim(args.num_filters, args.inc_rate, 3) = 10
    /\ \E i \in LayerIds :
         /\ layers[i].op = "Conv2D" /\ layers[i].blk = "term"
         /\ layers[i].lvl = args.depth - 3
         /\ layers[i].filters = 9

\* C4: every conv block (first block of a level, block after the skip
\* concatenation, terminal block) outputs input channels + dim channels when
\* residual is set and exactly dim channels when it is not, dim being the
\* filter count of the block's convolutions.
C4_ResidualChannels ==
    IsBase =>
        \A s \in BlockStarts :
            LET e == EndOf(s)
                cin == ShapeOf(layers[s].in).c
                d == layers[s].filters
            IN  /\ layers[s].op = "Conv2D"
                /\ \A j \in s .. e : layers[j].op = "Conv2D" => layers[j].filters = d
                /\ args.residual =>
                     /\ layers[e].op = "Concatenate"
                     /\ layers[e].in = layers[s].in
                     /\ layers[e].c = cin + d
                /\ ~args.residual =>
                     /\ layers[e].op # "Concatenate"
                     /\ layers[e].c = d

C4_Witness ==
    /\ IsBase /\ pc = "done" /\ args.residual /\ args.depth >= 1
    /\ \A b \in ConvBlockParts :
         \E s \in BlockStarts :
            /\ layers[s].blk = b
            /\ ShapeOf(layers[s].in).c > 0 /\ layers[s].filters > 0
            /\ layers[EndOf(s)].c = ShapeOf(layers[s].in).c + layers[s].filters

\* C8 (as stated): is_deconv = True selects the transposed convolution for
\* every decoder upsampling step and is_deconv = False selects nearest-
\* neighbour upsampling followed by convolution, in both builders.
C8_AsStated ==
    IF args.is_deconv
    THEN Count("UpSampling2D") = 0
    ELSE Count("Conv2DTranspose") = 0

\* C9: a Dropout layer appears only in the terminal conv block, directly after
\* the first convolution (and its normalization, if any) and directly before
\* the second convolution; a finished graph holds exactly one Dropout layer
\* when dropout is nonzero and none when it is zero.
C9_DropoutOnlyTerminal ==
    (IsBase /\ args.depth >= 0) =>
        /\ \A i \in LayerIds :
             layers[i].op = "Dropout" =>
                LET first == IF args.batch_norm THEN i - 2 ELSE i - 1 IN
                /\ layers[i].blk = "term" /\ layers[i].lvl = 0
                /\ first >= 1 /\ BlockStart(first)
                /\ layers[first].op = "Conv2D"
                /\ args.batch_norm => layers[i - 1].op = "BatchNormalization"
                /\ layers[i].in = i - 1
                /\ i < Len(layers)
                /\ layers[i + 1].op = "Conv2D" /\ layers[i + 1].in = i
                /\ layers[i + 1].blk = "term"
        /\ \A i \in LayerIds :
             layers[i].blk \in {"pre", "post"} => layers[i].op # "Dropout"
        /\ pc \in {"return", "done"} =>
             Count("Dropout") = IF args.dropout # 0 THEN 1 ELSE 0

C9_Witness ==
    /\ IsBase /\ pc = "done" /\ args.depth >= 2 /\ args.dropout # 0
    /\ Count("Dropout") = 1
    /\ CountBlk("pre") > 0 /\ CountBlk("post") > 0

UpsamplingOps == {"UpSampling2D", "Conv2DTranspose"}

C10_Structure ==
    LET top == IF args.depth > 0 THEN args.depth ELSE 0
        ups == Cardinality({i \in LayerIds : layers[i].op \in UpsamplingOps})
    IN
    /\ Len(stack) <= top
    /\ pc \in {"level_block", "return", "done"} => depth = args.depth - Len(stack)
    /\ pc = "level_block" => CountBlk("down") = Len(stack)
    /\ (pc = "return" /\ ~(depth > 0)) =>
         /\ Len(stack) = top
         /\ CountBlk("down") = top
         /\ \A l \in 1 .. args.depth :
              Cardinality({i \in LayerIds :
                             layers[i].blk = "down" /\ layers[i].lvl = l}) = 1
    /\ pc = "done" =>
         /\ Cardinality(BlockStarts) = 2 * top + 1
         /\ CountBlk("down") = top
         /\ ups = top
         /\ CountBlk("skip") = top
         /\ Cardinality({i \in LayerIds : layers[i].blk = "term"
                                            /\ BlockStart(i)}) = 1
    /\ (pc = "done" /\ args.depth < 0) =>
         \A i \in LayerIds : layers[i].blk \in {"term", "out"}
    /\ \A i \in LayerIds :
         layers[i].blk = "skip" =>
            LET k == layers[i].lvl
                a == layers[i].in
                u == CHOOSE j \in LayerIds :
                        /\ layers[j].op \in UpsamplingOps
                        /\ layers[j].lvl = k
                r == layers[u].in
            IN  /\ k >= 1
                /\ a >= 1 /\ layers[a].lvl = k /\ layers[a].blk = "pre" /\ BlockEnd(a)
                /\ layers[i].in2 = i - 1
                /\ layers[i - 1].lvl = k /\ layers[i - 1].blk = "up"
                /\ u \in {i - 1, i - 2}
                /\ (u = i - 2) => layers[i - 1].in = u
                /\ r >= 1 /\ layers[r].lvl = k - 1 /\ BlockEnd(r)
                /\ layers[r].blk = IF k = 1 THEN "term" ELSE "post"

\* Steps the construction still has to take: descents, the terminal block,
\* ascents and the output convolution.
Rank ==
    LET d == IF depth > 0 THEN depth ELSE 0
        top == IF args.depth > 0 THEN args.depth ELSE 0
    IN  CASE pc = "build_model" -> 2 * top + 3
          [] pc = "level_block" -> 2 * d + Len(stack) + 2
          [] pc = "return" -> Len(stack) + 1
          [] OTHER -> 0

\* Some step of the construction can be taken: each action is total once its
\* guard holds (it completes its layers or raises).
CanStep ==
    \/ pc = "build_model" /\ IsBase
    \/ pc = "level_block" /\ Recursive(depth)
    \/ pc = "level_block" /\ ~Recursive(depth)
    \/ pc = "return" /\ stack # << >>
    \/ pc = "return" /\ stack = << >> /\ IsBase

\* C10: level_block terminates for every integer depth (every step lowers
\* Rank, which is never negative, and a construction that has neither returned
\* nor raised can take a step); for depth >= 0 it
\* nests exactly depth calls, each one level deeper, and the finished graph has
\* 2*depth + 1 conv blocks, depth downsamplings, depth upsamplings and depth
\* skip concatenations, the skip of level k joined with the upsampled output
\* of level k - 1 only; a negative depth builds the terminal block alone.
C10_TerminatesWithStructure ==
    /\ [](IsBase => (C10_Structure /\ Rank >= 0 /\ (Finished \/ CanStep)))
    /\ [][IsBase => Rank' < Rank]_vars

C10_Witness ==
    /\ IsBase /\ pc = "done" /\ args.depth = 3
    /\ Cardinality(BlockStarts) = 7
    /\ CountBlk("skip") = 3 /\ CountBlk("down") = 3

\* a negative depth has run the terminal case
C10_WitnessNegative ==
    /\ IsBase /\ pc = "done" /\ args.depth < 0
    /\ Cardinality(BlockStarts) = 1 /\ CountBlk("down") = 0

-----------------------------------------------------------------------------
(* UNetResNet101 *)

IsResNet == args.builder = "UNetResNet101"

\* The block counts the specification names.
ExpectedCounts == (2 :> 3) @@ (3 :> 3) @@ (4 :> 23) @@ (5 :> 3)

\* The backbone exposes every name the builder asks for.
EncoderSuffices == \A st \in 2 .. 5 : encoder.counts[st] >= ExpectedCounts[st]

\* C5 (as stated): on a backbone whose per-stage block counts differ from
\* {2:3, 3:3, 4:23, 5:3}, by fewer or by more blocks, build_model fails with a
\* missing-layer-name error and returns no Model.
C5_AsStated ==
    (IsResNet /\ encoder.counts # ExpectedCounts) => pc # "done"

\* The part of C5 the code does: a backbone that lacks a queried name stops the
\* construction at the first failing lookup, which is the last one made.
C5_MissingNameStops ==
    IsResNet =>
        /\ \A i \in 1 .. Len(lookups) :
             lookups[i] \notin encoder.names =>
                (i = Len(lookups) /\ pc = "error" /\ err = "get_layer: missing name")
        /\ (\E st \in 2 .. 5 : encoder.counts[st] < ExpectedCounts[st]) => pc # "done"

ExpectedLabels ==
    (2 :> <<"a", "b", "c">>) @@
    (3 :> <<"a", "b1", "b2">>) @@
    (4 :> <<"a", "b1", "b2", "b3", "b4", "b5", "b6", "b7", "b8", "b9", "b10", "b11",
            "b12", "b13", "b14", "b15", "b16", "b17", "b18", "b19", "b20", "b21",
            "b22">>) @@
    (5 :> <<"a", "b", "c">>)

ExpectedBlocks ==
    LET Of(st) == [i \in 1 .. Len(ExpectedLabels[st]) |->
                     <<st, ExpectedLabels[st][i]>>]
    IN  Of(2) \o Of(3) \o Of(4) \o Of(5)

EncoderDone == pc \in {"center", "decoder", "output", "done"}

\* C6: encoder blocks run in stage order 2, 3, 4, 5: a, b, c in stage 2,
\* a, b1, b2 in stage 3, a, b1 .. b22 in stage 4 and a, b, c in stage 5, each
\* block on the previous block's output; the branch-1 shortcut layers are
\* used in the 'a' blocks only and the identity shortcut elsewhere; no layer
\* name is looked up twice in one build.
C6_EncoderBlockOrder ==
    IsResNet =>
        /\ Len(blocks) <= Len(ExpectedBlocks)
        /\ \A i \in 1 .. Len(blocks) :
             LET b == blocks[i]
                 sb == ToString(b.stage) \o b.block
                 asked == {lookups[j] : j \in b.first .. b.last}
                 sum == layers[b.out - 1]
             IN  /\ <<b.stage, b.block>> = ExpectedBlocks[i]
                 /\ b.shortcut <=> (b.block = "a")
                 /\ b.in = IF i = 1 THEN blocks[i].in ELSE blocks[i - 1].out
                 /\ i = 1 => (b.in >= 1 /\ layers[b.in].blk = "pool1")
                 /\ ("res" \o sb \o "_branch1") \in asked <=> (b.block = "a")
                 /\ ("bn" \o sb \o "_branch1") \in asked <=> (b.block = "a")
                 /\ ("scale" \o sb \o "_branch1") \in asked <=> (b.block = "a")
                 /\ b.last - b.first + 1 = IF b.block = "a" THEN 16 ELSE 13
                 /\ sum.op = "Add"
                 /\ (sum.in2 = b.in) <=> (b.block # "a")
        /\ EncoderDone =>
             /\ Len(blocks) = Len(ExpectedBlocks)
             /\ \A st \in 2 .. 5 :
                  Cardinality({i \in 1 .. Len(blocks) : blocks[i].stage = st})
                     = ExpectedCounts[st]
        /\ Cardinality({lookups[i] : i \in 1 .. Len(lookups)}) = Len(lookups)

C6_Witness ==
    /\ IsResNet /\ pc = "done"
    /\ Len(blocks) = 32
    /\ Len(lookups) = 433
    /\ blocks[32].block = "c" /\ blocks[32].stage = 5

DecoderShapeErrors ==
    {"Concatenate: shape", "MaxPooling2D: shape", "add: shape", "conv: shape",
     "conv1: shape"}

\* C7: the decoder runs center, dec_5, dec_4, dec_3, dec_2, dec_1; dec_5 ..
\* dec_2 take the concatenation of the previous decoder output with the
\* outputs of stages 5, 4, 3, 2 and dec_1 takes dec_2 alone; for height and
\* width multiples of 64 the two inputs of each concatenation have equal
\* height and width, no layer is rejected for its shape, and the model built
\* (on a backbone exposing the queried names, with 3 input channels and
\* loadable weights) has output shape (h, w, out_channels).
C7_DecoderAligned ==
    (IsResNet /\ args.h % 64 = 0 /\ args.w % 64 = 0) =>
        /\ err \notin DecoderShapeErrors
        /\ EncoderDone =>
             \A st \in 2 .. 5 :
                /\ skips[st].id = blocks[CHOOSE i \in 1 .. Len(blocks) :
                                            /\ blocks[i].stage = st
                                            /\ \A j \in (i + 1) .. Len(blocks) :
                                                 blocks[j].stage # st].out
                /\ skips[st].h * Pow(2, st) = args.h
                /\ skips[st].w * Pow(2, st) = args.w
        /\ \A i \in LayerIds :
             layers[i].blk = "skip" =>
                LET st == layers[i].lvl IN
                /\ st \in 2 .. 5
                /\ layers[i].in = decs[6 - st].id
                /\ layers[i].in2 = skips[st].id
                /\ <<decs[6 - st].h, decs[6 - st].w>> = <<skips[st].h, skips[st].w>>
                /\ layers[i + 1].blk = "dec" /\ layers[i + 1].lvl = st
                /\ layers[i + 1].in = i
        /\ \A i \in LayerIds :
             (layers[i].blk = "dec" /\ layers[i].lvl = 1 /\ layers[i - 1].lvl # 1) =>
                (layers[i].in = decs[5].id /\ layers[i - 1].blk = "dec"
                   /\ layers[i - 1].lvl = 2)
        /\ \A i \in 1 .. Len(decs) :
             /\ decs[i].h * Pow(2, 6 - i) = args.h
             /\ decs[i].w * Pow(2, 6 - i) = args.w
             /\ i > 1 => decs[i].id > decs[i - 1].id
        /\ pc = "done" =>
             /\ Len(decs) = 6 /\ CountBlk("skip") = 4
             /\ <<m.h, m.w, m.c>> = <<args.h, args.w, args.out_channels>>
        /\ (Finished /\ EncoderSuffices /\ args.in_channels = 3 /\ keras.weightsFileOk)
             => pc = "done"

C7_Witness ==
    /\ IsResNet /\ pc = "done"
    /\ args.h = 256 /\ args.w = 64
    /\ <<m.h, m.w, m.c>> = <<256, 64, args.out_channels>>
    /\ CountBlk("skip") = 4
    /\ Len(decs) = 6

====
